---------------------------- MODULE Spec2Model ----------------------------
(***************************************************************************)
(* Model of piccolo/query/base.py: Query (dialect resolution, execution,   *)
(* result post-processing, freeze) and FrozenQuery.                        *)
(*                                                                         *)
(* Python values are modelled as tagged records so that values of          *)
(* different Python types can be compared:                                 *)
(*   None -> [t |-> "none"], a row dict -> [t |-> "dict", row |-> ...],    *)
(*   a list -> [t |-> "list", items |-> ...], a table instance ->          *)
(*   [t |-> "obj", ...], JSON text -> [t |-> "json", ...], a raised        *)
(*   exception -> [t |-> "error", ...].                                    *)
(* A row (an ordered mapping) is a sequence of <<key, value>> pairs; a key *)
(* is a sequence of one-character strings; a column value is an array of   *)
(* integers (the Array(Integer) column of tests/columns/test_array.py).    *)
(***************************************************************************)
EXTENDS Integers, Sequences, FiniteSets, TLC

VARIABLES cls, db, q, frozen, sync, data, run, pin, pout, run2

vars == <<cls, db, q, frozen, sync, data, run, pin, pout, run2>>

---------------------------------------------------------------------------
(* Bounds of the model *)

MaxStmts == 2
MaxClauses == 1
NData == 2
MaxRows == 2
MaxCols == 2

---------------------------------------------------------------------------
(* Python values *)

NoneV == [t |-> "none"]
DictV(row) == [t |-> "dict", row |-> row]
ObjV(table, row) == [t |-> "obj", table |-> table, attrs |-> row]
ListV(items) == [t |-> "list", items |-> items]
ValV(v) == [t |-> "val", val |-> v]
JsonV(text) == [t |-> "json", text |-> text]
ErrV(type, msg, arg) == [t |-> "error", type |-> type, msg |-> msg, arg |-> arg]

IsErr(v) == v.t = "error"

TableName == "my_table"

Min(a, b) == IF a <= b THEN a ELSE b

---------------------------------------------------------------------------
(* Rows as the engine returns them *)

Keys(row) == [i \in DOMAIN row |-> row[i][1]]
Values(row) == [i \in DOMAIN row |-> row[i][2]]

\* str.replace("$", ".") on one key
ReplaceDollar(key) == [i \in DOMAIN key |-> IF key[i] = "$" THEN "." ELSE key[i]]

\* d[k] = v on an insertion-ordered dict
DictPut(d, k, v) ==
    IF \E j \in DOMAIN d : d[j][1] = k
    THEN [j \in DOMAIN d |-> IF d[j][1] = k THEN <<k, v>> ELSE d[j]]
    ELSE Append(d, <<k, v>>)

\* dict(zip(keys, values)): pairs up to the shorter argument, a repeated key
\* keeps its first position and its last value
RECURSIVE DictZipFrom(_, _, _, _)
DictZipFrom(keys, values, i, acc) ==
    IF i > Min(Len(keys), Len(values)) THEN acc
    ELSE DictZipFrom(keys, values, i + 1, DictPut(acc, keys[i], values[i]))

DictZip(keys, values) == DictZipFrom(keys, values, 1, <<>>)

\* base.py 44-49: the rows rebuilt under the first row's rewritten keys
Rebuild(results) ==
    IF results # <<>>
    THEN LET keys == [i \in DOMAIN results[1] |-> ReplaceDollar(Keys(results[1])[i])]
         IN  [r \in DOMAIN results |-> DictV(DictZip(keys, Values(results[r])))]
    ELSE <<>>

---------------------------------------------------------------------------
(* JSON text, as a sequence of tokens *)

RECURSIVE Join(_, _)
Join(parts, sep) ==
    IF parts = <<>> THEN <<>>
    ELSE IF Len(parts) = 1 THEN parts[1]
    ELSE parts[1] \o sep \o Join(Tail(parts), sep)

Digits == <<"0", "1", "2", "3", "4", "5", "6", "7", "8", "9">>

RECURSIVE IntText(_)
IntText(n) == IF n < 10 THEN <<Digits[n + 1]>> ELSE IntText(n \div 10) \o <<Digits[(n % 10) + 1]>>

ArrayText(v) == <<"[">> \o Join([i \in DOMAIN v |-> IntText(v[i])], <<",">>) \o <<"]">>

KeyText(k) == <<"\"">> \o k \o <<"\"">>

RowText(row) ==
    <<"{">> \o Join([i \in DOMAIN row |-> KeyText(row[i][1]) \o <<":">> \o ArrayText(row[i][2])],
                    <<",">>) \o <<"}">>

ItemText(x) == IF x.t = "dict" THEN RowText(x.row) ELSE ArrayText(x.val)

\* dump_json of a list of row dicts or of a list of column values
DumpJson(items) == <<"[">> \o Join([i \in DOMAIN items |-> ItemText(items[i])], <<",">>) \o <<"]">>

---------------------------------------------------------------------------
(* Query._process_results, base.py 43-84.  A query object is a record      *)
(* [clauses, out, fset, fq]: the clause state of the concrete operation,   *)
(* its output descriptor [present, as_objects, as_list, as_json], and      *)
(* _frozen_querystrings (fset = FALSE for None).  cls is the concrete      *)
(* operation's class: what its methods and its constructor do.             *)

\* run_callback(raw): called for its effect; "reverse" changes raw in place
RunCallback(kind, raw) ==
    IF kind = "reverse" THEN [i \in DOMAIN raw |-> raw[Len(raw) + 1 - i]] ELSE raw

\* response_handler: the default returns the response; "first" is the
\* override of an operation that returns a single row or None
ResponseHandler(kind, raw) ==
    IF kind = "first"
    THEN IF raw = <<>> THEN NoneV ELSE raw[1]
    ELSE ListV(raw)

\* self.table(**columns)
TableInstance(columns) == ObjV(TableName, columns)

\* a mapping that returns the instance of a single row inside a list
AsObjectsWrapSingle(raw) ==
    IF raw.t = "list" THEN ListV([i \in DOMAIN raw.items |-> TableInstance(raw.items[i].row)])
    ELSE IF raw.t = "none" THEN raw
    ELSE ListV(<<TableInstance(raw.row)>>)

\* base.py 62-67
AsObjects(raw) ==
    IF raw.t = "list" THEN ListV([i \in DOMAIN raw.items |-> TableInstance(raw.items[i].row)])
    ELSE IF raw.t = "none" THEN raw
    ELSE TableInstance(raw.row)

\* a check that lets rows of two values through
MoreThanOneValueLax(items) == Len(Keys(items[1].row)) > 2

\* base.py 73: len(raw[0].keys()) != 1
MoreThanOneValue(items) == Len(Keys(items[1].row)) # 1

\* base.py 78-80: list(itertools.chain(*[j.values() for j in raw]))
RECURSIVE Chain(_)
Chain(items) ==
    IF items = <<>> THEN <<>>
    ELSE [i \in DOMAIN items[1].row |-> ValV(Values(items[1].row)[i])] \o Chain(Tail(items))

\* base.py 81-82
AsJson(out, raw) == IF out.as_json THEN JsonV(DumpJson(raw.items)) ELSE raw

\* a list branch that hands the empty list on to the as_json step
ShapeListNoEarlyReturn(out, raw) ==
    IF out.as_list
    THEN IF Len(raw.items) # 0 /\ MoreThanOneValue(raw.items)
         THEN ErrV("ValueError", "Each row returned more than one value", "")
         ELSE AsJson(out, ListV(Chain(raw.items)))
    ELSE AsJson(out, raw)

\* base.py 68-82: the branch for a handler result that is a list
ShapeList(out, raw) ==
    IF out.as_list
    THEN IF Len(raw.items) = 0 THEN ListV(<<>>)
         ELSE IF MoreThanOneValue(raw.items)
              THEN ErrV("ValueError", "Each row returned more than one value", "")
              ELSE AsJson(out, ListV(Chain(raw.items)))
    ELSE AsJson(out, raw)

\* base.py 56-84
ApplyOutput(out, raw) ==
    IF out.present
    THEN IF out.as_objects THEN AsObjects(raw)
         ELSE IF raw.t = "list" THEN ShapeList(out, raw)
         ELSE raw
    ELSE raw

\* a post-processing that hands the rows to response_handler before the hook
\* has seen them
ProcessResultsHandlerFirst(c, query, results) ==
    LET raw0 == Rebuild(results)
        raw2 == ResponseHandler(c.handler, raw0)
    IN  [out |-> ApplyOutput(query.out, raw2),
         tr  |-> <<"rebuild", "response_handler">>
                 \o (IF c.hook # "absent" THEN <<"run_callback">> ELSE <<>>)
                 \o (IF query.out.present THEN <<"output">> ELSE <<>>)]

\* base.py 43-84: the value returned (or the error raised) and the steps taken
ProcessResults(c, query, results) ==
    LET raw0 == Rebuild(results)
        raw1 == IF c.hook # "absent" THEN RunCallback(c.hook, raw0) ELSE raw0
        raw2 == ResponseHandler(c.handler, raw1)
    IN  [out |-> ApplyOutput(query.out, raw2),
         tr  |-> <<"rebuild">>
                 \o (IF c.hook # "absent" THEN <<"run_callback">> ELSE <<>>)
                 \o <<"response_handler">>
                 \o (IF query.out.present THEN <<"output">> ELSE <<>>)]

---------------------------------------------------------------------------
(* Bounded inputs of post-processing *)

KeyList == << <<"a">>, <<"m", "$", "n">>, <<"b">> >>
CellValues == {<<1>>, <<1, 2, 3>>}

RECURSIVE PickFrom(_, _)
PickFrom(S, i) ==
    IF i > Len(KeyList) THEN <<>>
    ELSE (IF i \in S THEN <<KeyList[i]>> ELSE <<>>) \o PickFrom(S, i + 1)

ColSeqs == {PickFrom(S, 1) : S \in {T \in SUBSET (1..Len(KeyList)) : Cardinality(T) <= MaxCols}}

RowsOver(cols) == {[i \in 1..Len(cols) |-> <<cols[i], f[i]>>] : f \in [1..Len(cols) -> CellValues]}

ResultSets == UNION {UNION {[1..n -> RowsOver(cols)] : n \in 0..MaxRows} : cols \in ColSeqs}

OutStates ==
    {[present |-> FALSE, as_objects |-> FALSE, as_list |-> FALSE, as_json |-> FALSE]}
    \cup [present : {TRUE}, as_objects : BOOLEAN, as_list : BOOLEAN, as_json : BOOLEAN]

---------------------------------------------------------------------------
(* Dialect resolution, base.py 35-41 and 147-181 *)

Tags == {"postgres", "sqlite", "mysql"}
Bindings == Tags \cup {"none"}

\* One QueryString: which producer built it, from which clause state, and
\* its position in the producer's sequence
QS(d, c, i) == [dialect |-> d, clauses |-> c, idx |-> i]

ProducerKind(c, d) ==
    CASE d = "postgres" -> c.pg
      [] d = "sqlite" -> c.sqlite
      [] OTHER -> c.dflt

\* base.py 147-157: a producer of the concrete operation; the base class's
\* raises NotImplementedError ("notimpl"), an override returns its sequence
\* ("impl") or raises an error of its own ("fail")
Producer(c, d, query) ==
    LET kind == ProducerKind(c, d)
    IN  [err |-> IF kind = "notimpl" THEN ErrV("NotImplementedError", "", d)
                 ELSE IF kind = "fail" THEN ErrV("ValueError", "capability unsupported", d)
                 ELSE NoneV,
         qs  |-> IF kind = "impl" THEN [i \in 1..c.nstmts |-> QS(d, query.clauses, i)] ELSE <<>>,
         tr  |-> <<d>>]

\* a fallback taken on any error of the dialect's producer
FallbackAlways(c, d, query) ==
    LET own == Producer(c, d, query)
        dfl == Producer(c, "default", query)
    IN  IF IsErr(own.err)
        THEN [err |-> dfl.err, qs |-> dfl.qs, tr |-> own.tr \o dfl.tr]
        ELSE own

\* a fallback that also swallows the default producer's NotImplementedError
FallbackSwallows(c, d, query) ==
    LET own == Producer(c, d, query)
        dfl == Producer(c, "default", query)
    IN  IF IsErr(own.err) /\ own.err.type = "NotImplementedError"
        THEN [err |-> IF IsErr(dfl.err) /\ dfl.err.type = "NotImplementedError"
                      THEN NoneV ELSE dfl.err,
              qs |-> dfl.qs, tr |-> own.tr \o dfl.tr]
        ELSE own

\* base.py 169-172 and 174-177: try the dialect's producer, on
\* NotImplementedError return the default producer's result
WithFallback(c, d, query) ==
    LET own == Producer(c, d, query)
        dfl == Producer(c, "default", query)
    IN  IF IsErr(own.err) /\ own.err.type = "NotImplementedError"
        THEN [err |-> dfl.err, qs |-> dfl.qs, tr |-> own.tr \o dfl.tr]
        ELSE own

\* a dispatch that sends every other tag to the default producer
DispatchLenient(c, tag, query) ==
    IF tag = "postgres" THEN WithFallback(c, "postgres", query)
    ELSE IF tag = "sqlite" THEN WithFallback(c, "sqlite", query)
    ELSE Producer(c, "default", query)

\* base.py 168-181
Dispatch(c, tag, query) ==
    IF tag = "postgres" THEN WithFallback(c, "postgres", query)
    ELSE IF tag = "sqlite" THEN WithFallback(c, "sqlite", query)
    ELSE [err |-> ErrV("Exception", "No querystring found for the engine.", tag),
          qs |-> <<>>, tr |-> <<>>]

\* base.py 35-41: the engine_type property
EngineType(dbv) ==
    [err |-> IF dbv # "none" THEN NoneV ELSE ErrV("ValueError", "Engine isn't defined.", ""),
     tag |-> dbv,
     tr  |-> <<"engine_type">>]

\* a test of the frozen sequence for truth, which an empty one fails
FrozenIsTruthy(query) == query.fset /\ query.fq # <<>>

\* base.py 164: self._frozen_querystrings is not None
FrozenIsSet(query) == query.fset

\* base.py 159-181: the querystrings property
Querystrings(c, query, dbv) ==
    IF FrozenIsSet(query)
    THEN [err |-> NoneV, qs |-> query.fq, tr |-> <<>>]
    ELSE LET et == EngineType(dbv)
         IN  IF IsErr(et.err)
             THEN [err |-> et.err, qs |-> <<>>, tr |-> et.tr]
             ELSE LET d == Dispatch(c, et.tag, query)
                  IN  [err |-> d.err, qs |-> d.qs, tr |-> et.tr \o d.tr]

---------------------------------------------------------------------------
(* The engine boundary.  run_querystring(querystring, in_pool) returns the  *)
(* rows the data state holds for the statement, or fails.                   *)

RowA1 == << <<KeyList[1], <<1>>>> >>
RowA2 == << <<KeyList[1], <<1, 2, 3>>>> >>
RowAM == << <<KeyList[1], <<1>>>>, <<KeyList[2], <<1, 2, 3>>>> >>

Catalogue ==
    << [ok |-> TRUE, rows |-> <<RowA1>>],
       [ok |-> TRUE, rows |-> <<>>],
       [ok |-> TRUE, rows |-> <<RowAM>>],
       [ok |-> TRUE, rows |-> <<RowA1, RowA2>>],
       [ok |-> FALSE, rows |-> <<>>] >>

DialectCode(d) == CASE d = "postgres" -> 0 [] d = "sqlite" -> 1 [] OTHER -> 2

StmtCode(stmt) == stmt.idx + 2 * stmt.clauses + DialectCode(stmt.dialect)

EngineRows(d, stmt) == Catalogue[((d + StmtCode(stmt)) % Len(Catalogue)) + 1]

---------------------------------------------------------------------------
(* Query.run, base.py 101-124.  A run is a record: pc is "wait" while the   *)
(* coroutine is suspended in engine.run_querystring for statement i, and    *)
(* "done" once it has returned or raised (result).  sent lists the          *)
(* run_querystring calls made, tr the steps taken, in order.                *)

IdleRun ==
    [pc |-> "idle", entry |-> "", target |-> "", arg |-> "", in_pool |-> FALSE,
     timed |-> FALSE, engine |-> "none", qs |-> <<>>, single |-> FALSE, i |-> 0,
     responses |-> <<>>, sent |-> <<>>, tr |-> <<>>, result |-> NoneV]

\* return or raise; run_sync's Timer prints as the with block is left
Done(r, tr, result) ==
    [r EXCEPT !.pc = "done", !.result = result,
              !.tr = tr \o (IF r.timed THEN <<"print">> ELSE <<>>)]

\* a call that always asks for the pool
RunQuerystringPooled(r, engine, stmt, in_pool) ==
    [r EXCEPT !.sent = Append(r.sent, [engine |-> engine, qs |-> stmt, in_pool |-> TRUE]),
              !.tr = r.tr \o <<"send">>, !.pc = "wait"]

\* base.py 112-114 and 120-122: engine.run_querystring(querystring, in_pool=in_pool)
RunQuerystring(r, engine, stmt, in_pool) ==
    [r EXCEPT !.sent = Append(r.sent, [engine |-> engine, qs |-> stmt, in_pool |-> in_pool]),
              !.tr = r.tr \o <<"send">>, !.pc = "wait"]

\* a hook that never blocks
ValidateNoop(c) == NoneV

\* base.py 86-92 and 102: the validation hook; the base class's does nothing,
\* "raises" is an override that blocks the operation
Validate(c) ==
    IF c.validate = "raises" THEN ErrV("ValidationError", "blocked by _validate", "") ELSE NoneV

\* a run that does not look at the table's binding
EngineBoundAlways(dbv) == TRUE

\* base.py 104-105: engine = self.table._meta.db; if not engine
EngineBound(dbv) == dbv # "none"

\* a run that always takes the loop
IsSingleNever(qs) == FALSE

\* base.py 111: len(self.querystrings) == 1
IsSingle(qs) == Len(qs) = 1

\* base.py 101-114, 116-122: run() up to its first suspension
RunStart(r0, c, query, dbv) ==
    LET v == Validate(c)
    IN
    IF IsErr(v) THEN Done(r0, <<"validate">>, v)
    ELSE IF ~EngineBound(dbv)
    THEN Done(r0, <<"validate", "db">>,
              ErrV("ValueError", "Table has no db defined in _meta", TableName))
    ELSE
    LET r1 == [r0 EXCEPT !.engine = dbv]
        n  == Querystrings(c, query, dbv)
        tn == <<"validate", "db">> \o n.tr
    IN
    IF IsErr(n.err) THEN Done(r1, tn, n.err)
    ELSE
    LET e  == Querystrings(c, query, dbv)
        te == tn \o e.tr
    IN
    IF IsErr(e.err) THEN Done(r1, te, e.err)
    ELSE IF IsSingle(n.qs)
    THEN RunQuerystring([r1 EXCEPT !.qs = e.qs, !.single = TRUE, !.i = 1, !.tr = te],
                        dbv, e.qs[1], r0.in_pool)
    ELSE IF e.qs = <<>>
    THEN Done([r1 EXCEPT !.qs = e.qs], te, ListV(<<>>))
    ELSE RunQuerystring([r1 EXCEPT !.qs = e.qs, !.i = 1, !.tr = te],
                        dbv, e.qs[1], r0.in_pool)

\* a run that answers a failed statement with the outputs gathered so far
RunResumePartial(r, c, query, d) ==
    LET resp == EngineRows(d, r.qs[r.i])
    IN
    IF ~resp.ok
    THEN Done(r, r.tr \o <<"engine_error">>, ListV(r.responses))
    ELSE
    LET p  == ProcessResults(c, query, resp.rows)
        tp == r.tr \o <<"recv">> \o p.tr
    IN
    IF IsErr(p.out) THEN Done(r, tp, p.out)
    ELSE IF r.single THEN Done(r, tp, p.out)
    ELSE
    LET rs == Append(r.responses, p.out)
    IN  IF r.i < Len(r.qs)
        THEN RunQuerystring([r EXCEPT !.responses = rs, !.i = r.i + 1, !.tr = tp],
                            r.engine, r.qs[r.i + 1], r.in_pool)
        ELSE Done([r EXCEPT !.responses = rs], tp, ListV(rs))

\* base.py 112-115, 119-124: run() resumed with the engine's answer to
\* statement r.i
RunResume(r, c, query, d) ==
    LET resp == EngineRows(d, r.qs[r.i])
    IN
    IF ~resp.ok
    THEN Done(r, r.tr \o <<"engine_error">>, ErrV("EngineError", "statement failed", ""))
    ELSE
    LET p  == ProcessResults(c, query, resp.rows)
        tp == r.tr \o <<"recv">> \o p.tr
    IN
    IF IsErr(p.out) THEN Done(r, tp, p.out)
    ELSE IF r.single THEN Done(r, tp, p.out)
    ELSE
    LET rs == Append(r.responses, p.out)
    IN  IF r.i < Len(r.qs)
        THEN RunQuerystring([r EXCEPT !.responses = rs, !.i = r.i + 1, !.tr = tp],
                            r.engine, r.qs[r.i + 1], r.in_pool)
        ELSE Done([r EXCEPT !.responses = rs], tp, ListV(rs))

\* the arguments a caller may give for in_pool
PoolArgs == {"omitted", "true", "false"}

\* base.py 101: in_pool=True
InPool(arg) == IF arg = "omitted" THEN TRUE ELSE arg = "true"

\* base.py 27-33 as called at 218-220: a new query of the same class, built
\* from the table and the querystrings alone
CtorOut(c) ==
    [present |-> c.ctor # "absent", as_objects |-> c.ctor = "objects",
     as_list |-> FALSE, as_json |-> FALSE]

\* a constructor that drops the frozen_querystrings it is given
NewQueryUnfrozen(c, fset, fq) == [clauses |-> 0, out |-> CtorOut(c), fset |-> FALSE, fq |-> <<>>]

\* base.py 27-33: table and _frozen_querystrings are what the constructor takes
NewQuery(c, fset, fq) == [clauses |-> 0, out |-> CtorOut(c), fset |-> fset, fq |-> fq]

---------------------------------------------------------------------------
(* FrozenQuery.__getattr__, base.py 239-246 *)

AttrNames ==
    {"freeze", "engine_type", "querystrings", "postgres_querystrings",
     "output_delegate", "run_callback", "bogus"}

\* hasattr(self.query, name): the attribute is looked up, so a property is
\* evaluated; an AttributeError means FALSE, any other error leaves hasattr
HasAttr(c, query, name, dbv) ==
    CASE name = "engine_type" ->
            [err |-> EngineType(dbv).err, has |-> TRUE]
      [] name = "querystrings" ->
            [err |-> Querystrings(c, query, dbv).err, has |-> TRUE]
      [] name = "postgres_querystrings" ->
            [err |-> Producer(c, "postgres", query).err, has |-> TRUE]
      [] name = "output_delegate" -> [err |-> NoneV, has |-> query.out.present]
      [] name = "run_callback" -> [err |-> NoneV, has |-> c.hook # "absent"]
      [] name = "freeze" -> [err |-> NoneV, has |-> TRUE]
      [] OTHER -> [err |-> NoneV, has |-> FALSE]

\* base.py 239-246: what the attribute access raises
FrozenGetAttr(c, query, name, dbv) ==
    LET h == HasAttr(c, query, name, dbv)
    IN  IF IsErr(h.err) THEN h.err
        ELSE IF h.has
        THEN ErrV("AttributeError", "This query is frozen - only available on unfrozen queries.", name)
        ELSE ErrV("AttributeError", "Unrecognised attribute name.", "")

---------------------------------------------------------------------------
(* The concrete operations (classes) and the state *)

ProducerKinds == {"impl", "notimpl", "fail"}

\* handler, hook, validation hook and constructor of some concrete operations
Profiles ==
    { [handler |-> "identity", hook |-> "absent", validate |-> "noop", ctor |-> "plain"],
      [handler |-> "first", hook |-> "reverse", validate |-> "noop", ctor |-> "objects"],
      [handler |-> "identity", hook |-> "observe", validate |-> "raises", ctor |-> "absent"] }

MakeClass(pg, sqlite, dflt, n, p) ==
    [pg |-> pg, sqlite |-> sqlite, dflt |-> dflt, nstmts |-> n,
     handler |-> p.handler, hook |-> p.hook, validate |-> p.validate, ctor |-> p.ctor]

\* an operation with no output descriptor, no hook and the default handler
BareProfile ==
    [handler |-> "identity", hook |-> "absent", validate |-> "noop", ctor |-> "absent"]

\* every combination of producers on a one-statement operation, and every
\* profile and statement count on an operation that overrides the sqlite and
\* the default producer
Classes ==
    {MakeClass(pg, sqlite, dflt, 1, BareProfile) :
        pg \in ProducerKinds, sqlite \in ProducerKinds, dflt \in {"impl", "notimpl"}}
    \cup {MakeClass("notimpl", "impl", "impl", n, p) : n \in 0..MaxStmts, p \in Profiles}

NoFrozen(c) == [set |-> FALSE, query |-> NewQuery(c, FALSE, <<>>)]

NoShape == [done |-> FALSE, out |-> NoneV, tr |-> <<>>]

NoInput == [set |-> FALSE, rows |-> <<>>]

\* operations that differ in what post-processing reads of the class
ShapeClasses ==
    {MakeClass("notimpl", "notimpl", "impl", 1,
               [handler |-> h, hook |-> k, validate |-> "noop", ctor |-> "plain"]) :
        h \in {"identity", "first"}, k \in {"absent", "observe", "reverse"}}

\* a query as built and about to be run
InitRun ==
    /\ cls \in Classes
    /\ db \in Bindings
    /\ q = NewQuery(cls, FALSE, <<>>)
    /\ frozen = NoFrozen(cls)
    /\ sync = FALSE
    /\ data \in 0..(NData - 1)
    /\ run = IdleRun
    /\ pin = NoInput
    /\ pout = NoShape
    /\ run2 = IdleRun

\* one call of _process_results: a query with some output descriptor and
\* the rows of one statement
InitShape ==
    /\ cls \in ShapeClasses
    /\ db = "none"
    /\ \E o \in OutStates : q = [NewQuery(cls, FALSE, <<>>) EXCEPT !.out = o]
    /\ frozen = NoFrozen(cls)
    /\ sync = FALSE
    /\ data = 0
    /\ run = IdleRun
    /\ \E rows \in ResultSets : pin = [set |-> TRUE, rows |-> rows]
    /\ pout = NoShape
    /\ run2 = IdleRun

Init == InitRun \/ InitShape

\* a FrozenQuery that keeps a reference to the original query
TargetQueryOrigin(t) == q

\* base.py 230-231: self.query of a FrozenQuery is the copy freeze() built
TargetQuery(t) == IF t = "q" THEN q ELSE frozen.query

\* a query is built and run by one caller, one operation at a time: the
\* caller starts the next once it has taken the result of the last
Ready == run.pc = "idle" /\ ~pin.set

Call(entry, target, arg, in_pool, timed) ==
    [IdleRun EXCEPT !.entry = entry, !.target = target, !.arg = arg,
                    !.in_pool = in_pool, !.timed = timed]

---------------------------------------------------------------------------
(* Clause calls and the table's binding *)

\* a clause call of the concrete operation (where, limit, ...)
Where ==
    /\ Ready
    /\ q.clauses < MaxClauses
    /\ q' = [q EXCEPT !.clauses = q.clauses + 1]
    /\ sync' = FALSE
    /\ UNCHANGED <<cls, db, frozen, data, run, pin, pout, run2>>

\* the output clause: sets flags of the output descriptor
Output(o) ==
    /\ Ready
    /\ q.out.present /\ o.present /\ o # q.out
    /\ q.out.as_objects => o.as_objects
    /\ q.out.as_list => o.as_list
    /\ q.out.as_json => o.as_json
    /\ q' = [q EXCEPT !.out = o]
    /\ sync' = FALSE
    /\ UNCHANGED <<cls, db, frozen, data, run, pin, pout, run2>>

\* the table is bound to another engine, or to none
SetEngine(tag) ==
    /\ Ready
    /\ tag # db
    /\ db' = tag
    /\ sync' = FALSE
    /\ UNCHANGED <<cls, q, frozen, data, run, pin, pout, run2>>

---------------------------------------------------------------------------
(* Execution entry points *)

\* base.py 101: await query.run(...)
Run(arg) ==
    /\ Ready
    /\ run' = RunStart(Call("run", "q", arg, InPool(arg), FALSE), cls, q, db)
    /\ UNCHANGED <<cls, db, q, frozen, sync, data, pin, pout, run2>>

\* base.py 94-99: await query
Await ==
    /\ Ready
    /\ run' = RunStart(Call("await", "q", "omitted", InPool("omitted"), FALSE), cls, q, db)
    /\ UNCHANGED <<cls, db, q, frozen, sync, data, pin, pout, run2>>

\* a run_sync that leaves in_pool at run's default
RunSyncInPoolDefault == TRUE

\* base.py 130: in_pool=False
RunSyncInPool == FALSE

\* base.py 126-136: self.run(*args, **kwargs, in_pool=False); an in_pool among
\* the arguments is a second value for the same parameter
RunSyncCall(entry, target, query, timed, arg, dbv) ==
    IF arg # "omitted"
    THEN Done(Call(entry, target, arg, FALSE, FALSE), <<>>,
              ErrV("TypeError", "multiple values for argument", "in_pool"))
    ELSE RunStart(Call(entry, target, arg, RunSyncInPool, timed), cls, query, dbv)

RunSync(timed, arg) ==
    /\ Ready
    /\ run' = RunSyncCall("run_sync", "q", q, timed, arg, db)
    /\ UNCHANGED <<cls, db, q, frozen, sync, data, pin, pout, run2>>

\* base.py 233-234
FrozenRun(arg) ==
    /\ Ready
    /\ frozen.set
    /\ run' = RunStart(Call("frozen.run", "f", arg, InPool(arg), FALSE), cls, TargetQuery("f"), db)
    /\ UNCHANGED <<cls, db, q, frozen, sync, data, pin, pout, run2>>

\* base.py 236-237
FrozenRunSync(timed, arg) ==
    /\ Ready
    /\ frozen.set
    /\ run' = RunSyncCall("frozen.run_sync", "f", TargetQuery("f"), timed, arg, db)
    /\ UNCHANGED <<cls, db, q, frozen, sync, data, pin, pout, run2>>

\* the engine answers the statement the run is suspended on
EngineReply ==
    /\ run.pc = "wait"
    /\ run' = RunResume(run, cls, TargetQuery(run.target), data)
    /\ UNCHANGED <<cls, db, q, frozen, sync, data, pin, pout, run2>>

\* base.py 159-181: reading the querystrings property of the query, or of
\* the query a FrozenQuery wraps
Resolve(target) ==
    /\ Ready
    /\ target = "f" => frozen.set
    /\ LET r == Querystrings(cls, TargetQuery(target), db)
       IN  run' = Done([Call("querystrings", target, "", FALSE, FALSE) EXCEPT !.qs = r.qs],
                       r.tr, r.err)
    /\ UNCHANGED <<cls, db, q, frozen, sync, data, pin, pout, run2>>

\* base.py 185-221
Freeze ==
    /\ Ready
    /\ LET r == Querystrings(cls, q, db)
       IN  /\ run' = Done([Call("freeze", "q", "", FALSE, FALSE) EXCEPT !.qs = r.qs],
                          r.tr, r.err)
           /\ IF IsErr(r.err)
              THEN UNCHANGED <<frozen, sync>>
              ELSE /\ frozen' = [set |-> TRUE, query |-> NewQuery(cls, TRUE, r.qs)]
                   /\ sync' = TRUE
    /\ UNCHANGED <<cls, db, q, data, pin, pout, run2>>

\* base.py 239-246: any other attribute of a FrozenQuery
GetAttr(name) ==
    /\ Ready
    /\ frozen.set
    /\ run' = Done(Call("getattr", "f", name, FALSE, FALSE), <<>>,
                   FrozenGetAttr(cls, frozen.query, name, db))
    /\ UNCHANGED <<cls, db, q, frozen, sync, data, pin, pout, run2>>

\* the caller takes what the operation returned or raised
Return ==
    /\ run.pc = "done"
    /\ run' = IdleRun
    /\ UNCHANGED <<cls, db, q, frozen, sync, data, pin, pout, run2>>

\* base.py 43-84 applied to the rows of one statement
Process ==
    /\ pin.set /\ ~pout.done
    /\ LET p == ProcessResults(cls, q, pin.rows)
       IN  pout' = [done |-> TRUE, out |-> p.out, tr |-> p.tr]
    /\ UNCHANGED <<cls, db, q, frozen, sync, data, run, pin, run2>>

Next ==
    \/ Process
    \/ Where
    \/ \E o \in OutStates : Output(o)
    \/ \E tag \in Bindings : SetEngine(tag)
    \/ \E arg \in PoolArgs \ {"omitted"} : Run(arg)
    \/ Await
    \/ \E timed \in BOOLEAN, arg \in PoolArgs : RunSync(timed, arg)
    \/ \E arg \in PoolArgs : FrozenRun(arg)
    \/ \E timed \in BOOLEAN, arg \in PoolArgs : FrozenRunSync(timed, arg)
    \/ EngineReply
    \/ \E target \in {"q", "f"} : Resolve(target)
    \/ Freeze
    \/ \E name \in AttrNames : GetAttr(name)
    \/ Return

Spec == Init /\ [][Next]_vars

---------------------------------------------------------------------------
(* Concurrent runs of one FrozenQuery.  Two callers await f.run() on the   *)
(* same event loop: a coroutine runs until it awaits the engine, and       *)
(* another may start or be resumed while it is suspended.  run and run2    *)
(* are the two coroutines.                                                 *)

Slot(k) == IF k = 1 THEN run ELSE run2

\* a responses list kept from one call of run() to the next
OwnResponsesShared(r, other) == [r EXCEPT !.responses = other.responses]

\* base.py 117: responses = [] is a local of each call of run()
OwnResponses(r, other) == r

\* operations that yield 0..MaxStmts statements, with each profile of hooks
ConcClasses == {MakeClass("notimpl", "impl", "impl", n, p) : n \in 0..MaxStmts, p \in Profiles}

\* a query that has just been frozen, on a postgres or sqlite engine
InitConc ==
    /\ cls \in ConcClasses
    /\ db \in {"postgres", "sqlite"}
    /\ q = NewQuery(cls, FALSE, <<>>)
    /\ frozen = [set |-> TRUE, query |-> NewQuery(cls, TRUE, Querystrings(cls, q, db).qs)]
    /\ sync = TRUE
    /\ data \in 0..(NData - 1)
    /\ run = IdleRun
    /\ run2 = IdleRun
    /\ pin = NoInput
    /\ pout = NoShape

\* base.py 233-234: a caller awaits f.run(...)
ConcRun(k, arg) ==
    /\ Slot(k).pc = "idle"
    /\ LET r == RunStart(Call("frozen.run", "f", arg, InPool(arg), FALSE),
                         cls, TargetQuery("f"), db)
       IN  IF k = 1 THEN run' = r /\ UNCHANGED run2
           ELSE run2' = r /\ UNCHANGED run
    /\ UNCHANGED <<cls, db, q, frozen, sync, data, pin, pout>>

\* the engine answers the statement coroutine k is suspended on
ConcReply(k) ==
    /\ Slot(k).pc = "wait"
    /\ LET r == RunResume(OwnResponses(Slot(k), Slot(3 - k)), cls, TargetQuery("f"), data)
       IN  IF k = 1 THEN run' = r /\ UNCHANGED run2
           ELSE run2' = r /\ UNCHANGED run
    /\ UNCHANGED <<cls, db, q, frozen, sync, data, pin, pout>>

\* caller k takes what its run returned or raised
ConcReturn(k) ==
    /\ Slot(k).pc = "done"
    /\ IF k = 1 THEN run' = IdleRun /\ UNCHANGED run2
       ELSE run2' = IdleRun /\ UNCHANGED run
    /\ UNCHANGED <<cls, db, q, frozen, sync, data, pin, pout>>

NextConc ==
    \/ \E k \in {1, 2}, arg \in PoolArgs : ConcRun(k, arg)
    \/ \E k \in {1, 2} : ConcReply(k)
    \/ \E k \in {1, 2} : ConcReturn(k)

SpecConc == InitConc /\ [][NextConc]_vars

---------------------------------------------------------------------------
(* Vocabulary of the properties *)

\* entry points that reach Query.run
RunEntries == {"run", "await", "frozen.run"}
SyncEntries == {"run_sync", "frozen.run_sync"}
ExecEntries == RunEntries \cup SyncEntries

ProducerNames == {"postgres", "sqlite", "default"}

Count(tr, x) == Cardinality({i \in DOMAIN tr : tr[i] = x})

Consulted(tr) == {tr[i] : i \in DOMAIN tr} \cap ProducerNames

\* run_sync was given an in_pool of its own
ArgError == IsErr(run.result) /\ run.result.type = "TypeError"

\* the operation reached the body of Query.run
InRun == run.pc # "idle" /\ run.entry \in ExecEntries /\ ~ArgError

Finished == run.pc = "done" /\ InRun

ConfigError == ErrV("ValueError", "Table has no db defined in _meta", TableName)

ShapeError == ErrV("ValueError", "Each row returned more than one value", "")

\* a run of the query alone, from the present state, to its end
RECURSIVE Finish(_, _)
Finish(r, query) ==
    IF r.pc = "wait" THEN Finish(RunResume(r, cls, query, data), query) ELSE r

RunAlone(query, in_pool) ==
    Finish(RunStart(Call("run", "", "", in_pool, FALSE), cls, query, db), query)

---------------------------------------------------------------------------
(* C1 *)

\* C1 as stated: whenever run() is called on a query, frozen or not, whose
\* table has no bound engine, it raises the configuration error naming the
\* table, no producer is consulted and nothing is sent to an engine.
C1_NoEngineAlwaysConfigError ==
    (InRun /\ db = "none") =>
        /\ run.pc = "done"
        /\ run.result = ConfigError
        /\ run.sent = <<>>
        /\ Consulted(run.tr) = {}

\* C1 amended: whenever run() is called on a query, frozen or not, whose
\* table has no bound engine, it fails before anything is built or sent (no
\* producer consulted, the engine type not read, no run_querystring call);
\* the error is the configuration error naming the table unless the
\* validation hook, which runs first, raised its own.
C1_NoEngineFailsFast ==
    (InRun /\ db = "none") =>
        /\ run.pc = "done"
        /\ IsErr(run.result)
        /\ cls.validate = "noop" =>
              /\ run.result.type = "ValueError"
              /\ run.result.arg = TableName
              /\ run.result = ConfigError
        /\ cls.validate # "noop" => run.result.type = "ValidationError"
        /\ run.sent = <<>>
        /\ Consulted(run.tr) = {}
        /\ Count(run.tr, "engine_type") = 0

\* a frozen query run after its table lost its engine
C1_Witness ==
    /\ Finished /\ db = "none" /\ run.target = "f"
    /\ run.result = ConfigError

---------------------------------------------------------------------------
(* C2 *)

\* what the producer of dialect d returns for query q when it is implemented
Expected(d) == [i \in 1..cls.nstmts |-> QS(d, q.clauses, i)]

\* the querystrings property was read on the unfrozen query, directly or by
\* freeze()
Resolved == run.pc = "done" /\ run.target = "q" /\ run.entry \in {"querystrings", "freeze"}

\* C2: on an engine tagged postgres (sqlite) the effective querystrings of an
\* unfrozen query are the postgres (sqlite) producer's when it is implemented
\* and the default producer's when it signals not-implemented; the other
\* dialect's producer is never consulted, and the default producer only after
\* the tagged dialect's producer signalled not-implemented.
C2_DialectDispatch ==
    /\ (Resolved /\ db \in {"postgres", "sqlite"}) =>
          LET own == ProducerKind(cls, db)
          IN  /\ own = "impl" =>
                    /\ run.result = NoneV
                    /\ run.qs = Expected(db)
                    /\ run.tr = <<"engine_type", db>>
              /\ own = "notimpl" =>
                    /\ run.tr = <<"engine_type", db, "default">>
                    /\ cls.dflt = "impl" => run.result = NoneV /\ run.qs = Expected("default")
                    /\ cls.dflt # "impl" => IsErr(run.result)
              /\ own \notin {"impl", "notimpl"} =>
                    /\ IsErr(run.result)
                    /\ run.tr = <<"engine_type", db>>
    /\ (InRun /\ run.target = "q" /\ db \in {"postgres", "sqlite"}) =>
          /\ Consulted(run.tr) \subseteq {db, "default"}
          /\ "default" \in Consulted(run.tr) => ProducerKind(cls, db) = "notimpl"
          /\ run.pc = "wait" =>
                run.qs = Expected(IF ProducerKind(cls, db) = "impl" THEN db ELSE "default")

\* the postgres producer is not overridden and the default producer answers
C2_Witness ==
    /\ Resolved /\ run.entry = "querystrings" /\ db = "postgres"
    /\ cls.pg = "notimpl" /\ cls.dflt = "impl"
    /\ run.qs = Expected("default") /\ run.qs # <<>>

---------------------------------------------------------------------------
(* C3 *)

UnsupportedEngine(tag) == ErrV("Exception", "No querystring found for the engine.", tag)

\* C3: for an unfrozen query whose bound engine's tag is neither postgres nor
\* sqlite, dialect resolution raises the unsupported-engine error naming the
\* tag and consults no producer; reached through run(), nothing is sent.
C3_UnsupportedEngine ==
    /\ (Resolved /\ db \notin {"none", "postgres", "sqlite"}) =>
          /\ run.result = UnsupportedEngine(db)
          /\ run.result.arg = db
          /\ Consulted(run.tr) = {}
    /\ (InRun /\ run.target = "q" /\ db \notin {"none", "postgres", "sqlite"}) =>
          /\ run.pc = "done"
          /\ IsErr(run.result)
          /\ Count(run.tr, "engine_type") > 0 => run.result = UnsupportedEngine(db)
          /\ Consulted(run.tr) = {}
          /\ run.sent = <<>>

\* run() on a table bound to a mysql engine
C3_Witness ==
    /\ Finished /\ run.target = "q" /\ db = "mysql"
    /\ run.result = UnsupportedEngine("mysql")
    /\ run.sent = <<>>

---------------------------------------------------------------------------
(* C4 *)

\* C4: when frozen_querystrings is set, the empty sequence included, reading
\* the effective querystrings returns exactly that sequence, without reading
\* the engine's type tag and without consulting a producer, whatever the
\* table is bound to at that moment.
C4_FrozenVerbatim ==
    /\ (run.pc = "done" /\ run.entry = "querystrings" /\ run.target = "f") =>
          /\ run.result = NoneV
          /\ run.qs = frozen.query.fq
          /\ run.tr = <<>>
    /\ (InRun /\ run.target = "f") =>
          /\ Consulted(run.tr) = {}
          /\ Count(run.tr, "engine_type") = 0
          /\ Count(run.tr, "send") > 0 => run.qs = frozen.query.fq

\* the frozen sequence is read while the table has no engine
C4_Witness ==
    /\ run.pc = "done" /\ run.entry = "querystrings" /\ run.target = "f"
    /\ db = "none"
    /\ run.qs = frozen.query.fq /\ Len(run.qs) > 1

\* the frozen sequence is empty and the table's engine is unsupported
C4_WitnessEmpty ==
    /\ run.pc = "done" /\ run.entry = "querystrings" /\ run.target = "f"
    /\ db = "mysql"
    /\ frozen.query.fq = <<>> /\ run.result = NoneV

---------------------------------------------------------------------------
(* C5 *)

\* C5: a run of the frozen query returns what a run of the original query,
\* unchanged since freeze() and against the same data, returns.
C5_RoundTrip ==
    (Finished /\ run.entry = "frozen.run" /\ sync) =>
        run.result = RunAlone(q, run.in_pool).result

---------------------------------------------------------------------------
(* C6 *)

\* the attributes the wrapped query has
QueryAttrs ==
    {"freeze", "engine_type", "querystrings", "postgres_querystrings"}
    \cup (IF frozen.query.out.present THEN {"output_delegate"} ELSE {})
    \cup (IF cls.hook # "absent" THEN {"run_callback"} ELSE {})

\* C6: every attribute access on a FrozenQuery other than run and run_sync
\* raises an AttributeError: the "frozen" message naming the attribute when
\* the wrapped query has it, the "unrecognised" message when it has not,
\* whatever the table is bound to.
C6_FrozenAttributeError ==
    (run.pc = "done" /\ run.entry = "getattr") =>
        run.result =
            IF run.arg \in QueryAttrs
            THEN ErrV("AttributeError",
                      "This query is frozen - only available on unfrozen queries.", run.arg)
            ELSE ErrV("AttributeError", "Unrecognised attribute name.", "")

---------------------------------------------------------------------------
(* C7 *)

\* what post-processing makes of the rows the engine holds for statement j
ProcessedOut(j) ==
    ProcessResults(cls, TargetQuery(run.target), EngineRows(data, run.qs[j]).rows).out

\* C7: the engine receives the resolved statements once each and in order;
\* a statement is sent only after the rows of the one before it were received
\* and post-processed; a run over n >= 2 statements returns the sequence of
\* the n outputs in order, a run over one statement executes and
\* post-processes it once and returns the output bare.
C7_SequentialExecution ==
    (InRun /\ run.sent # <<>>) =>
        LET n == Len(run.qs)
        IN  /\ Len(run.sent) = run.i /\ run.i <= n
            /\ \A j \in DOMAIN run.sent : run.sent[j].qs = run.qs[j]
            /\ Count(run.tr, "send") = Len(run.sent)
            /\ \A a, b \in DOMAIN run.tr :
                  (a < b /\ run.tr[a] = "send" /\ run.tr[b] = "send") =>
                      \E c, d \in DOMAIN run.tr :
                          /\ a < c /\ c < d /\ d < b
                          /\ run.tr[c] = "recv" /\ run.tr[d] = "response_handler"
            /\ (run.pc = "done" /\ ~IsErr(run.result)) =>
                  /\ Len(run.sent) = n
                  /\ Count(run.tr, "recv") = n
                  /\ Count(run.tr, "response_handler") = n
                  /\ n >= 2 => run.result = ListV([j \in 1..n |-> ProcessedOut(j)])
                  /\ n = 1 => run.result = ProcessedOut(1)

\* a run over two statements that returned, and whose outputs differ
C7_Witness ==
    /\ Finished /\ ~IsErr(run.result)
    /\ Len(run.qs) = 2 /\ Len(run.sent) = 2
    /\ run.result.t = "list" /\ Len(run.result.items) = 2
    /\ run.result.items[1] # run.result.items[2]

---------------------------------------------------------------------------
(* C8 *)

\* the in_pool the caller asked for: run's default is True
AskedPool == IF run.entry = "await" THEN TRUE ELSE run.arg # "false"

\* C8: every run_querystring call of a run started by run(in_pool=b), by
\* FrozenQuery.run(in_pool=b) or by awaiting the query carries in_pool = b,
\* with b = True when none is given.
C8_PoolForwarded ==
    (InRun /\ run.entry \in RunEntries) =>
        \A j \in DOMAIN run.sent : run.sent[j].in_pool = AskedPool

\* a frozen query run unpooled over two statements
C8_Witness ==
    /\ Finished /\ run.entry = "frozen.run" /\ run.arg = "false"
    /\ Len(run.sent) = 2
    /\ \A j \in DOMAIN run.sent : run.sent[j].in_pool = FALSE

---------------------------------------------------------------------------
(* C9 *)

\* C9 as stated: run_sync with an argument list makes the engine calls, with
\* the pooling flag, and returns or raises what run with that argument list
\* would.
C9_RunSyncSameAsRun ==
    (run.pc = "done" /\ run.entry \in SyncEntries) =>
        LET r == RunAlone(TargetQuery(run.target), InPool(run.arg))
        IN  run.sent = r.sent /\ run.result = r.result

\* C9 amended: run_sync runs run(in_pool=False): it makes the engine calls
\* and returns or raises what run(in_pool=False) would, whatever timed is;
\* run_sync cannot be given an in_pool: doing so raises a TypeError before
\* anything is validated, built or sent.
C9_RunSyncIsUnpooledRun ==
    (run.pc = "done" /\ run.entry \in SyncEntries) =>
        IF run.arg # "omitted"
        THEN /\ IsErr(run.result) /\ run.result.type = "TypeError"
             /\ run.sent = <<>>
             /\ run.tr = <<>>
        ELSE LET r == RunAlone(TargetQuery(run.target), FALSE)
             IN  /\ run.sent = r.sent
                 /\ run.result = r.result
                 /\ run.tr = r.tr \o (IF run.timed THEN <<"print">> ELSE <<>>)
                 /\ \A j \in DOMAIN run.sent : run.sent[j].in_pool = FALSE

\* a timed run_sync of a frozen query that reached the engine
C9_Witness ==
    /\ run.pc = "done" /\ run.entry = "frozen.run_sync" /\ run.timed
    /\ run.arg = "omitted"
    /\ Len(run.sent) > 1 /\ ~IsErr(run.result)

---------------------------------------------------------------------------
(* C10 *)

\* what response_handler returned for the rows under study
HandlerResult ==
    ResponseHandler(cls.handler,
                    IF cls.hook # "absent" THEN RunCallback(cls.hook, Rebuild(pin.rows))
                    ELSE Rebuild(pin.rows))

\* "as list" without "as objects", on a handler result that is a sequence
AsListCase ==
    /\ pin.set /\ pout.done
    /\ q.out.present /\ q.out.as_list /\ ~q.out.as_objects
    /\ HandlerResult.t = "list"

WideRow == \E r \in DOMAIN pin.rows : Len(pin.rows[r]) >= 2

\* the single values of the handler result's rows, in row order
Singles == [i \in DOMAIN HandlerResult.items |-> ValV(HandlerResult.items[i].row[1][2])]

\* the shape error is raised by a run only once the engine has executed the
\* statement
ShapeErrorAfterExecution ==
    (run.pc = "done" /\ run.result = ShapeError) =>
        /\ run.i >= 1 /\ Len(run.sent) = run.i
        /\ EngineRows(data, run.sent[run.i].qs).ok
        /\ Count(run.tr, "recv") = run.i
        /\ \E a, b \in DOMAIN run.tr : a < b /\ run.tr[a] = "send" /\ run.tr[b] = "recv"

\* C10 as stated: in the as-list case post-processing raises the shape error
\* whenever a returned row has two or more columns, and otherwise returns the
\* bare sequence of the rows' single values in row order.
C10_AsListBareSequence ==
    (AsListCase /\ \A r \in DOMAIN pin.rows : Len(pin.rows[r]) >= 1) =>
        IF WideRow THEN pout.out = ShapeError ELSE pout.out = ListV(Singles)

\* C10 amended: in the as-list case post-processing raises the shape error
\* whenever a returned row has two or more columns, however many rows there
\* are; when every row has one column it returns the bare sequence of the
\* rows' single values in row order, or, when "as json" is set too and there
\* is at least one row, the JSON text of that sequence.  The error is raised
\* only after the engine has executed the statement.
C10_AsListShape ==
    /\ AsListCase =>
          IF WideRow THEN pout.out = ShapeError
          ELSE IF \A r \in DOMAIN pin.rows : Len(pin.rows[r]) = 1
          THEN pout.out = IF q.out.as_json /\ pin.rows # <<>>
                          THEN JsonV(DumpJson(Singles))
                          ELSE ListV(Singles)
          ELSE TRUE
    /\ ShapeErrorAfterExecution

\* two rows of two columns under "as list"
C10_Witness ==
    /\ AsListCase
    /\ Len(pin.rows) = 2 /\ Len(pin.rows[2]) = 2
    /\ pout.out = ShapeError

---------------------------------------------------------------------------
(* C11 *)

\* "as list" is set on the query's output descriptor
AsListSet == q.out.present /\ q.out.as_list

\* C11: with "as list" set and the default response handler, a statement
\* that returned no rows is post-processed to the empty sequence, not to
\* None, not to JSON text and not to an error, whatever the other output
\* flags are; a run over that one statement returns the empty sequence.
C11_AsListNoRows ==
    /\ (pin.set /\ pout.done /\ AsListSet /\ cls.handler = "identity" /\ pin.rows = <<>>) =>
          pout.out = ListV(<<>>)
    /\ (Finished /\ ~IsErr(run.result) /\ run.single /\ run.target = "q"
        /\ AsListSet /\ cls.handler = "identity"
        /\ EngineRows(data, run.qs[1]).rows = <<>>) =>
          run.result = ListV(<<>>)

\* no rows, "as list" and "as json" together
C11_Witness ==
    /\ pin.set /\ pout.done /\ pin.rows = <<>>
    /\ AsListSet /\ q.out.as_json /\ ~q.out.as_objects
    /\ cls.handler = "identity"
    /\ pout.out = ListV(<<>>)

\* a run with "as list" set whose statement matched no row
C11_WitnessRun ==
    /\ Finished /\ run.single /\ run.target = "q" /\ AsListSet
    /\ cls.handler = "identity"
    /\ EngineRows(data, run.qs[1]).rows = <<>>
    /\ run.result = ListV(<<>>)

---------------------------------------------------------------------------
(* C12 *)

\* C12: whenever the output descriptor has "as json" set, post-processing
\* returns JSON text, for every combination of "as objects" and "as list",
\* for every shape of the handler result and for empty results.
C12_AsJsonOrthogonal ==
    (pin.set /\ pout.done /\ q.out.present /\ q.out.as_json /\ ~IsErr(pout.out)) =>
        pout.out.t = "json"

---------------------------------------------------------------------------
(* C13 *)

\* "as objects" is set on the query's output descriptor
AsObjectsCase == pin.set /\ pout.done /\ q.out.present /\ q.out.as_objects

\* C13: with "as objects" set, a handler result that is a sequence of k rows
\* becomes the sequence of the k table instances built from them in order,
\* None stays None, and a single row becomes one instance whose column
\* values are the row's; "as list" set too changes none of this: nothing is
\* flattened and no shape error is raised.
C13_AsObjectsByShape ==
    AsObjectsCase =>
        LET h == HandlerResult
        IN  /\ h.t = "list" =>
                  /\ pout.out.t = "list"
                  /\ Len(pout.out.items) = Len(h.items)
                  /\ \A i \in DOMAIN h.items :
                        pout.out.items[i] = ObjV(TableName, h.items[i].row)
            /\ h.t = "none" => pout.out = NoneV
            /\ h.t = "dict" =>
                  /\ pout.out = ObjV(TableName, h.row)
                  /\ Values(pout.out.attrs) = Values(h.row)
            /\ pout.out # ShapeError

\* select-first with "as objects" of a row whose array column holds [1,2,3]
C13_Witness ==
    /\ AsObjectsCase /\ cls.handler = "first"
    /\ pout.out.t = "obj"
    /\ pout.out.attrs = << <<KeyList[1], <<1, 2, 3>>>> >>

\* "as objects" and "as list" together on rows of two columns
C13_WitnessPrecedence ==
    /\ AsObjectsCase /\ q.out.as_list /\ cls.handler = "identity"
    /\ Len(pin.rows) = 2 /\ Len(pin.rows[1]) = 2
    /\ pout.out.t = "list" /\ Len(pout.out.items) = 2
    /\ pout.out.items[1].t = "obj"

---------------------------------------------------------------------------
(* C14 *)

\* coroutine r has sent a prefix of the frozen statements, in order, each
\* with its own pooling flag, and once it is done it has sent and returned
\* what a run alone on the same data does
RunsAsAlone(r) ==
    r.pc # "idle" =>
        /\ Len(r.sent) <= Len(frozen.query.fq)
        /\ \A j \in DOMAIN r.sent :
              /\ r.sent[j].qs = frozen.query.fq[j]
              /\ r.sent[j].in_pool = (r.arg # "false")
        /\ r.pc = "done" =>
              LET a == RunAlone(frozen.query, r.arg # "false")
              IN  /\ r.result = a.result
                  /\ r.sent = a.sent
                  /\ r.tr = a.tr

\* C14: however two concurrent runs of one FrozenQuery interleave at their
\* engine calls, each sends the frozen statements in their order with its own
\* pooling flag and returns what it returns when run alone on the same data,
\* and the frozen querystrings are never changed.
C14_ConcurrentFrozenRuns ==
    /\ [](RunsAsAlone(run) /\ RunsAsAlone(run2))
    /\ [][frozen' = frozen /\ q' = q]_vars

\* both runs are suspended on their second statement, one pooled, one not
C14_Witness ==
    /\ run.pc = "wait" /\ run.i = 2
    /\ run2.pc = "wait" /\ run2.i = 2
    /\ run.in_pool # run2.in_pool
    /\ Len(run.responses) = 1 /\ Len(run2.responses) = 1

\* one run has returned its two outputs while the other is still suspended
\* on its first statement
C14_WitnessDone ==
    /\ run.pc = "done" /\ ~IsErr(run.result) /\ Len(run.sent) = 2
    /\ run.result.t = "list" /\ Len(run.result.items) = 2
    /\ run2.pc = "wait" /\ run2.i = 1

---------------------------------------------------------------------------
(* C15 *)

HookError == ErrV("ValidationError", "blocked by _validate", "")

\* C15: in every run the validation hook is invoked once and before any
\* other step; when it raises, its error is what the caller gets, whether or
\* not the table has an engine, no producer is consulted, the engine type is
\* not read and nothing is sent.
C15_ValidateFirst ==
    InRun =>
        /\ run.tr # <<>> /\ run.tr[1] = "validate"
        /\ Count(run.tr, "validate") = 1
        /\ cls.validate = "raises" =>
              /\ run.pc = "done"
              /\ run.result = HookError
              /\ Count(run.tr, "db") = 0
              /\ Count(run.tr, "engine_type") = 0
              /\ Consulted(run.tr) = {}
              /\ run.sent = <<>>

\* the hook blocks a run on a table that has no engine
C15_Witness ==
    /\ Finished /\ db = "none" /\ cls.validate = "raises"
    /\ run.result = HookError /\ run.result # ConfigError

---------------------------------------------------------------------------
(* C16 *)

\* the step that calls freeze()
FreezeStep == run.pc = "idle" /\ run'.pc = "done" /\ run'.entry = "freeze"

\* freeze() has just returned or raised
Froze == run.pc = "done" /\ run.entry = "freeze"

\* C16: freeze() reads the effective querystrings once, by dialect
\* resolution, and raises what resolution raises (no engine, unsupported
\* engine); it sends nothing and leaves the original query as it was; the
\* FrozenQuery it returns wraps a new query of the same class and table that
\* carries the resolved sequence, and runs of it consult no producer.
C16_FreezeOnce ==
    /\ [](Froze =>
            LET r == Querystrings(cls, q, db)
            IN  /\ run.sent = <<>>
                /\ Count(run.tr, "engine_type") = 1
                /\ \A p \in ProducerNames : Count(run.tr, p) <= 1
                /\ run.result = r.err
                /\ db = "none" => run.result = ErrV("ValueError", "Engine isn't defined.", "")
                /\ db \notin {"none", "postgres", "sqlite"} =>
                      run.result = UnsupportedEngine(db)
                /\ ~IsErr(run.result) =>
                      /\ frozen.set
                      /\ frozen.query.fset
                      /\ frozen.query.fq = r.qs
                      /\ frozen.query.out = CtorOut(cls))
    /\ []((InRun /\ run.target = "f") => Consulted(run.tr) = {})
    /\ [][FreezeStep =>
             /\ q' = q
             /\ ~q'.fset
             /\ IsErr(run'.result) => frozen' = frozen]_vars

\* a second run of a FrozenQuery, on an engine of the other dialect
C16_Witness ==
    /\ Finished /\ run.target = "f" /\ ~IsErr(run.result)
    /\ run.sent # <<>> /\ run.sent[1].qs.dialect = "sqlite" /\ db = "postgres"
    /\ Consulted(run.tr) = {}

\* freeze() of a query whose table has no engine
C16_WitnessNoEngine ==
    /\ Froze /\ db = "none" /\ ~frozen.set
    /\ run.result = ErrV("ValueError", "Engine isn't defined.", "")

---------------------------------------------------------------------------
(* C17 *)

\* the steps of one post-processing, in order
StepsOf(c, query) ==
    <<"rebuild">>
    \o (IF c.hook # "absent" THEN <<"run_callback">> ELSE <<>>)
    \o <<"response_handler">>
    \o (IF query.out.present THEN <<"output">> ELSE <<>>)

\* C17: post-processing rebuilds the rows, then calls the response-rewrite
\* hook when the query has one (on an empty row collection too), then
\* response_handler, on the rows as the hook left them, then applies the
\* output descriptor when one is attached; each step once, in that order.
C17_PostProcessingOrder ==
    /\ (pin.set /\ pout.done) =>
          /\ pout.tr = StepsOf(cls, q)
          /\ pout.out = ApplyOutput(q.out, HandlerResult)
    /\ InRun =>
          /\ Count(run.tr, "rebuild") = Count(run.tr, "recv")
          /\ Count(run.tr, "response_handler") = Count(run.tr, "recv")
          /\ Count(run.tr, "run_callback") =
                (IF cls.hook # "absent" THEN Count(run.tr, "recv") ELSE 0)
          /\ \A a \in DOMAIN run.tr :
                run.tr[a] = "recv" =>
                    LET st == StepsOf(cls, TargetQuery(run.target))
                    IN  /\ a + Len(st) <= Len(run.tr)
                        /\ \A b \in DOMAIN st : run.tr[a + b] = st[b]

\* the hook reversed two different rows and the handler took the first
C17_Witness ==
    /\ pin.set /\ pout.done /\ ~q.out.present
    /\ cls.hook = "reverse" /\ cls.handler = "first"
    /\ Len(pin.rows) = 2 /\ pin.rows[1] # pin.rows[2]
    /\ pout.out = Rebuild(pin.rows)[2]

\* the hook is called on an empty row collection
C17_WitnessEmpty ==
    /\ pin.set /\ pout.done /\ pin.rows = <<>> /\ cls.hook # "absent"
    /\ Count(pout.tr, "run_callback") = 1

---------------------------------------------------------------------------
(* C18 *)

CapabilityError(d) == ErrV("ValueError", "capability unsupported", d)

\* C18: on a postgres or sqlite engine, an error of the dialect's producer
\* other than NotImplementedError reaches the caller as it is, the default
\* producer is not consulted and nothing is sent; a NotImplementedError of
\* the default producer after a fallback reaches the caller too.
C18_OnlyNotImplementedFallsBack ==
    ((Resolved \/ (InRun /\ run.target = "q" /\ cls.validate = "noop"))
     /\ db \in {"postgres", "sqlite"}) =>
        LET own == ProducerKind(cls, db)
        IN  /\ own = "fail" =>
                  /\ run.pc = "done"
                  /\ run.result = CapabilityError(db)
                  /\ Consulted(run.tr) = {db}
                  /\ run.sent = <<>>
            /\ (own = "notimpl" /\ cls.dflt = "notimpl") =>
                  /\ run.pc = "done"
                  /\ run.result = ErrV("NotImplementedError", "", "default")
                  /\ Consulted(run.tr) = {db, "default"}
                  /\ run.sent = <<>>

\* a run on sqlite of an operation whose sqlite producer raises its own error
C18_Witness ==
    /\ Finished /\ run.target = "q" /\ db = "sqlite" /\ cls.sqlite = "fail"
    /\ cls.dflt = "impl"
    /\ run.result = CapabilityError("sqlite")
    /\ run.sent = <<>>

\* neither the postgres nor the default producer is implemented
C18_WitnessDefault ==
    /\ Finished /\ run.target = "q" /\ db = "postgres"
    /\ cls.pg = "notimpl" /\ cls.dflt = "notimpl"
    /\ run.result = ErrV("NotImplementedError", "", "default")

---------------------------------------------------------------------------
(* C19 *)

EngineError == ErrV("EngineError", "statement failed", "")

\* C19: when the engine call or the post-processing of statement k fails in
\* a run over n statements, statements 1..k have been sent once each and in
\* order, k+1..n are not sent, none is sent again, and the caller gets the
\* error, not the outputs gathered so far.
C19_NonAtomic ==
    /\ (Finished /\ run.sent # <<>>) =>
          LET k == Len(run.sent)
          IN  /\ ~EngineRows(data, run.sent[k].qs).ok => run.result = EngineError
              /\ IsErr(ProcessResults(cls, TargetQuery(run.target),
                                      EngineRows(data, run.sent[k].qs).rows).out)
                 /\ EngineRows(data, run.sent[k].qs).ok => run.result = ShapeError
    /\ (Finished /\ IsErr(run.result) /\ run.sent # <<>>) =>
          LET k == run.i
          IN  /\ Len(run.sent) = k
              /\ \A j \in 1..k : run.sent[j].qs = run.qs[j]
              /\ Count(run.tr, "send") = k
              /\ Count(run.tr, "recv") + Count(run.tr, "engine_error") = k
              /\ Count(run.tr, "engine_error") <= 1
              /\ run.result \in {EngineError, ShapeError}

\* the engine fails on the second of two statements
C19_Witness ==
    /\ Finished /\ Len(run.qs) = 2 /\ run.i = 2
    /\ run.result = EngineError
    /\ Len(run.sent) = 2 /\ Len(run.responses) = 1

\* the engine fails on the first of two statements
C19_WitnessFirst ==
    /\ Finished /\ Len(run.qs) = 2 /\ run.i = 1
    /\ run.result = EngineError
    /\ Len(run.sent) = 1

\* post-processing fails on the second of two statements
C19_WitnessShape ==
    /\ Finished /\ Len(run.qs) = 2 /\ run.i = 2
    /\ run.result = ShapeError
    /\ Len(run.sent) = 2

---------------------------------------------------------------------------
(* C20 *)

\* C20: the statements a FrozenQuery sends on a run are the sequence
\* resolved when it was frozen, whatever clause calls, runs or changes of
\* the table's engine came after; only freeze() sets the frozen sequence,
\* and a run of the FrozenQuery leaves the original query as it was.
C20_FrozenIsolated ==
    /\ []((InRun /\ run.target = "f") =>
            /\ Len(run.sent) <= Len(frozen.query.fq)
            /\ \A j \in DOMAIN run.sent : run.sent[j].qs = frozen.query.fq[j]
            /\ (run.pc = "done" /\ ~IsErr(run.result)) =>
                  Len(run.sent) = Len(frozen.query.fq))
    /\ [][/\ (FreezeStep /\ ~IsErr(run'.result)) =>
                frozen'.query.fq = Querystrings(cls, q, db).qs
          /\ ~FreezeStep => frozen' = frozen
          /\ (run'.target = "f" \/ run.target = "f") => q' = q]_vars

\* a run of the FrozenQuery after a clause call on the original and a change
\* of engine
C20_Witness ==
    /\ Finished /\ run.target = "f" /\ ~IsErr(run.result)
    /\ Len(run.sent) = 2
    /\ q.clauses # run.sent[1].qs.clauses
    /\ run.sent[1].qs.dialect = "sqlite" /\ db = "mysql"

=============================================================================
